---- MODULE Spec2Model ----
(***************************************************************************)
(* A model of the mecha actor runtime (src/src/lib.rs): addresses,         *)
(* mailboxes, the message loop of spawn_internal with its Link/Shutdown    *)
(* post-action, and the MasterControlProgram registry actor with its       *)
(* synchronous wrapper.  The actor implementations are the ones of the     *)
(* crate's tests (Echo, Counter) and MasterControlProgramImpl.             *)
(***************************************************************************)
EXTENDS Integers, Sequences, FiniteSets, TLC

\* ------------------------------------------------------------------ bounds
\* How many messages the test threads send to the workers, all together.
MaxSends == 3
\* How many registry calls (register, where_is, drop) the test threads make,
\* all together.
MaxCalls == 3
\* How many Shutdown messages a test thread sends to the workers while the
\* registry runs.
MaxShutdowns == 1
\* How many messages a test thread that knows the registry's address sends
\* on its own, to the registry or to a worker.
MaxDirect == 1

\* How many messages the test threads send to the actor built in the
\* declarative form, all together.
MaxTagged == 5

\* ------------------------------------------------------------ the universe
MCP == "mcp"
Workers == {"w1", "w2"}
Actors == {MCP} \cup Workers
Clients == {"c1", "c2"}
Threads == Actors \cup Clients
NameOrder == <<"x", "y">>
Names == {NameOrder[i] : i \in 1..Len(NameOrder)}

\* An ActorAddress: the identity (owner o, serial k) of one channel.  k = 0
\* is an actor's mailbox or the channel a test thread made for its fake
\* actor; k >= 1 is the k-th private reply channel of a thread.
ActorAddress(o, k) == [o |-> o, k |-> k]
Addr(t) == ActorAddress(t, 0)
Temp(c, k) == ActorAddress(c, k)
\* The address build() invents for a message without sender: its receiving
\* half is dropped at once, so nothing sent to it is ever received.
fake_tx == ActorAddress("null", 0)
\* Option::None for a builder's sender.
None == ActorAddress("none", 0)

\* MessageDatum, as one record shape: variant k with its payload.
MessageDatum(k, s, a, i) == [k |-> k, s |-> s, a |-> a, i |-> i]
Void == MessageDatum("Void", "", None, 0)
I64(i) == MessageDatum("I64", "", None, i)
Str(s) == MessageDatum("Str", s, None, 0)
Act(a) == MessageDatum("Act", "", a, 0)
\* The Map register() builds: {"name": Str(s), "actor": Act(a)}.
RegisterMap(s, a) == MessageDatum("Map", s, a, 0)
\* The Map Issuer builds: {"name": Str(s), "age": U64(i)}.
CelebrateMap(s, i) == MessageDatum("Map", s, None, i)
\* Option::None for a builder's datum.
NoDatum == MessageDatum("None", "", None, 0)

\* MessageType: the kinds are written as their names; "Custom" is Custom(tag)
\* with the one tag of a test (":test", ":next", "t"), and a Custom whose
\* tag its receiver matches on is written as that tag.
MessageType == {"Init", "Exited", "Link", "Shutdown", "Register", "RegisterResponse",
                "WhereIs", "WhereIsResponse", "Custom"}
GREET == ":greet"
PRAISE == ":praise"
CELEBRATE == ":celebrate"

VARIABLES
    pc,          \* per thread: where it is
    mailbox,     \* per channel: the messages sent and not yet received
    uplinks,     \* per actor: ActorInternal.uplinks
    cur,         \* per actor: (mt, ms) kept "for later" by the message loop
    implementor, \* per actor: which Actor implementation it runs
    count,       \* per actor: Counter.count
    registered,  \* MasterControlProgramImpl.registered
    lookup,      \* MasterControlProgramImpl.lookup
    calls,       \* per test thread: how many reply channels it has made
    ret,         \* per test thread: its last registry call and what it returned
    dropped,     \* whether the MasterControlProgram wrapper has been dropped
    nsent,       \* per test thread: how many messages it has sent to workers
    log,         \* history: per worker, the messages process_message was given
    sdSent,      \* history: the actors a Shutdown has been sent to
    succeeded,   \* history: the addresses some register call succeeded for
    spawnedWith, \* history: per actor, the uplink spawn_internal was given
    pending,     \* per actor: the pending queue of the declarative form
    state        \* per actor: the state object of the declarative form

vars == <<pc, mailbox, uplinks, cur, implementor, count, registered, lookup,
          calls, ret, dropped, nsent, log, sdSent, succeeded, spawnedWith, pending, state>>

\* ------------------------------------------------------ the declarative form
\* The state object of the gated counter: {active: false, count: 0}.
InitialState == [active |-> FALSE, count |-> 0]

\* ---------------------------------------------------------------- channels
Boxes == {Addr(t) : t \in Threads}
           \cup {Temp(c, k) : c \in Clients, k \in 1..MaxCalls}

\* Whether the receiving half of a channel still exists.
RxAlive(to) ==
    IF to \notin Boxes THEN FALSE
    ELSE IF to.k = 0 /\ to.o \in Actors
         THEN pc[to.o] \in {"recv", "post", "exiting"}
    ELSE IF to.k = 0 THEN TRUE
    ELSE calls[to.o] = to.k /\ pc[to.o] \in {"register", "where_is", "tear_down"}

\* MessageBuilder::build, with the history tag of the send: the sending
\* thread src, its serial n, whether a Shutdown had been sent to the
\* target before (late), and whether the target's loop had ended (gone).
build(mt, sender, datum, src, n, to) ==
    [mt |-> mt,
     sender |-> IF sender = None THEN fake_tx ELSE sender,
     datum |-> IF datum = NoDatum THEN Void ELSE datum,
     src |-> src, n |-> n, late |-> to.o \in sdSent,
     gone |-> to.o \in Actors /\ pc[to.o] \in {"exiting", "dead"}]

\* A channel that is not a queue: the newest message is received first.
SendAtFront(mb, to, m) ==
    IF RxAlive(to) THEN [mb EXCEPT ![to] = <<m>> \o @] ELSE mb
\* mpsc::Sender::send: appends, or fails when the receiver is gone.
Enqueue(mb, to, m) ==
    IF RxAlive(to) THEN [mb EXCEPT ![to] = Append(@, m)] ELSE mb

\* A send that queues the message whether or not anyone can receive it.
send_unchecked(mb, to, m) ==
    IF to \in DOMAIN mb THEN [mb EXCEPT ![to] = Append(@, m)] ELSE mb
\* MessageBuilder::send_to: the error of a failed send is discarded.
send_to(mb, to, m) == Enqueue(mb, to, m)

\* A request <<to, mt, sender, datum>> a thread is about to send.
Req(to, mt, sender, datum) == [to |-> to, mt |-> mt, sender |-> sender, datum |-> datum]

\* The sends of one thread in the order it makes them, tagged n, n + 1, ...
\* born holds the channels of the actors the thread has spawned in the same
\* handler: their receivers exist, whatever pc says of them yet.
RECURSIVE SendAllTo(_, _, _, _, _)
SendAllTo(mb, reqs, src, n, born) ==
    IF reqs = <<>> THEN mb
    ELSE LET r == Head(reqs)
             m == build(r.mt, r.sender, r.datum, src, n, r.to)
         IN SendAllTo(IF r.to \in born THEN [mb EXCEPT ![r.to] = Append(@, m)]
                      ELSE send_to(mb, r.to, m),
                      Tail(reqs), src, n + 1, born)
SendAll(mb, reqs, src, n) == SendAllTo(mb, reqs, src, n, {})

ShutdownTargets(reqs) ==
    {reqs[i].to.o : i \in {j \in 1..Len(reqs) : reqs[j].mt = "Shutdown"}} \cap Actors

NoMsg == [mt |-> "None", sender |-> None]

RECURSIVE Sum(_, _)
Sum(f, S) == IF S = {} THEN 0 ELSE LET x == CHOOSE y \in S : TRUE
                                   IN f[x] + Sum(f, S \ {x})

\* ------------------------------------------------- the Actor implementations
\* What one call of process_message does: the messages it sends (out), the
\* implementor's state after it, and whether it panicked.
\* and the actors it spawns (spawned, none unless said).
Effect(out, cnt, reg, lk, panic) ==
    [out |-> out, cnt |-> cnt, reg |-> reg, lk |-> lk, panic |-> panic,
     spawned |-> <<>>]
\* A call spawn_link(implementor, uplink) made inside a handler, for the
\* actor `new`.
SpawnReq(new, impl, uplink) == [new |-> new, impl |-> impl, uplink |-> uplink]
Quiet(a) == Effect(<<>>, count[a], registered, lookup, FALSE)

\* tests.rs, Echo: every message goes back to its sender, with the same
\* type and datum and with the echo actor as sender.
Echo(a, m) ==
    [Quiet(a) EXCEPT !.out = <<Req(m.sender, m.mt, Addr(a), m.datum)>>]

\* tests_c5d1.rs, Counter: counts its Custom(NEXT) messages.
Counter(a, m) ==
    IF m.mt = "Custom" THEN [Quiet(a) EXCEPT !.cnt = count[a] + 1] ELSE Quiet(a)

\* tests_c5d1.rs, Talker: prints, sends nothing; the CELEBRATE arm unwraps
\* the "name" and the "age" of a Map.
Talker(a, m) ==
    IF m.mt = CELEBRATE /\ m.datum.k = "Map" /\ (m.datum.s = "" \/ m.datum.i = 0)
    THEN [Quiet(a) EXCEPT !.panic = TRUE]
    ELSE Quiet(a)

\* The actor a handler of `a` spawns: the model's name for the new thread.
Fresh(a) == CHOOSE w \in Workers : w # a
\* An Issuer that answers its worker's Exited with a Shutdown to the worker.
IssuerShutsWorkerDown(a, m) ==
    CASE m.mt = "Init" ->
           [Quiet(a) EXCEPT
              !.spawned = <<SpawnReq(Fresh(a), "Talker", Addr(a))>>,
              !.out = <<Req(Addr(Fresh(a)), GREET, None, Str("Hewey")),
                        Req(Addr(Fresh(a)), PRAISE, None, Str("Dewey")),
                        Req(Addr(Fresh(a)), CELEBRATE, None, CelebrateMap("Louie", 16)),
                        Req(Addr(Fresh(a)), "Shutdown", None, NoDatum)>>]
      [] m.mt = "Exited" ->
           [Quiet(a) EXCEPT !.out = <<Req(m.sender, "Shutdown", None, NoDatum)>>]
      [] OTHER -> Quiet(a)
\* tests_c5d1.rs, Issuer: on Init it spawn-links a Talker to itself and
\* sends it three greetings and a Shutdown; on Exited it sends itself a
\* Shutdown.
Issuer(a, m) ==
    CASE m.mt = "Init" ->
           [Quiet(a) EXCEPT
              !.spawned = <<SpawnReq(Fresh(a), "Talker", Addr(a))>>,
              !.out = <<Req(Addr(Fresh(a)), GREET, None, Str("Hewey")),
                        Req(Addr(Fresh(a)), PRAISE, None, Str("Dewey")),
                        Req(Addr(Fresh(a)), CELEBRATE, None, CelebrateMap("Louie", 16)),
                        Req(Addr(Fresh(a)), "Shutdown", None, NoDatum)>>]
      [] m.mt = "Exited" ->
           [Quiet(a) EXCEPT !.out = <<Req(Addr(a), "Shutdown", None, NoDatum)>>]
      [] OTHER -> Quiet(a)

\* A remove that leaves the entry in the map.
RemoveNothing(f, key) == f
\* HashMap::remove / HashMap::insert on a function with a finite domain.
Remove(f, key) == [x \in DOMAIN f \ {key} |-> f[x]]
Insert(f, key, v) == [x \in DOMAIN f \cup {key} |-> IF x = key THEN v ELSE f[x]]

\* (NoNames: a broadcast that visits nothing.)
\* The names bound in registered, in the order the broadcast visits them
\* (HashMap iteration order is unspecified; the sends of the broadcast go to
\* the registrants' own mailboxes, so their order is not observable).
NoNames == <<>>
BoundNames == SelectSeq(NameOrder, LAMBDA n : n \in DOMAIN registered)

\* lib.rs, impl Actor for MasterControlProgramImpl: the arms of the match
\* on the message type.
\* Exited: the sender's identity is looked up and both entries removed.
ExitedArm(a, m) ==
    LET id == m.sender
    IN IF id \in DOMAIN lookup
       THEN [Quiet(a) EXCEPT !.reg = Remove(registered, lookup[id]),
                             !.lk = Remove(lookup, id)]
       ELSE Quiet(a)

\* Register with a Map holding both keys, for a name that is bound: a Void
\* answer.  RegisterRebinds binds the name anew instead.
RegisterRebinds(a, m) ==
    [Quiet(a) EXCEPT
       !.reg = Insert(registered, m.datum.s, m.datum.a),
       !.lk = Insert(lookup, m.datum.a, m.datum.s),
       !.out = <<Req(m.datum.a, "Link", Addr(a), NoDatum),
                 Req(m.sender, "RegisterResponse", Addr(a), Str(m.datum.s))>>]
RegisterBound(a, m) ==
    [Quiet(a) EXCEPT !.out = <<Req(m.sender, "RegisterResponse", Addr(a), NoDatum)>>]

\* Register with a Map holding both keys, for a name that is free: both
\* inserts, the Link to the actor, the answer with the name.  The other
\* one answers before it links.
RegisterAnswersFirst(a, m) ==
    [Quiet(a) EXCEPT
       !.reg = Insert(registered, m.datum.s, m.datum.a),
       !.lk = Insert(lookup, m.datum.a, m.datum.s),
       !.out = <<Req(m.sender, "RegisterResponse", Addr(a), Str(m.datum.s)),
                 Req(m.datum.a, "Link", Addr(a), NoDatum)>>]
RegisterFree(a, m) ==
    [Quiet(a) EXCEPT
       !.reg = Insert(registered, m.datum.s, m.datum.a),
       !.lk = Insert(lookup, m.datum.a, m.datum.s),
       !.out = <<Req(m.datum.a, "Link", Addr(a), NoDatum),
                 Req(m.sender, "RegisterResponse", Addr(a), Str(m.datum.s))>>]

\* Register: as_map() of the datum, then unwrap() of the two keys and of
\* their as_str() and as_act(), which panics when one is missing.
RegisterArm(a, m) ==
    IF m.datum.k # "Map"
    THEN [Quiet(a) EXCEPT !.out = <<Req(m.sender, "RegisterResponse", Addr(a), NoDatum)>>]
    ELSE IF m.datum.s = "" \/ m.datum.a = None
    THEN [Quiet(a) EXCEPT !.panic = TRUE]
    ELSE IF m.datum.s \in DOMAIN registered
    THEN RegisterBound(a, m)
    ELSE RegisterFree(a, m)

\* WhereIs: as_str() of the datum, then the look-up.  WhereIsForgets also
\* takes the name it was asked for out of the map.
WhereIsForgets(a, m) ==
    IF m.datum.k # "Str" \/ m.datum.s \notin DOMAIN registered
    THEN [Quiet(a) EXCEPT !.out = <<Req(m.sender, "WhereIsResponse", Addr(a), NoDatum)>>]
    ELSE [Quiet(a) EXCEPT
            !.reg = Remove(registered, m.datum.s),
            !.out = <<Req(m.sender, "WhereIsResponse", Addr(a),
                          Act(registered[m.datum.s]))>>]
WhereIsArm(a, m) ==
    IF m.datum.k # "Str" \/ m.datum.s \notin DOMAIN registered
    THEN [Quiet(a) EXCEPT !.out = <<Req(m.sender, "WhereIsResponse", Addr(a), NoDatum)>>]
    ELSE [Quiet(a) EXCEPT
            !.out = <<Req(m.sender, "WhereIsResponse", Addr(a),
                          Act(registered[m.datum.s]))>>]

\* Shutdown: one Shutdown to the address of every entry of registered.
\* ShutdownFirstOnly stops after the first entry.
ShutdownFirstOnly(a, m) ==
    [Quiet(a) EXCEPT
       !.out = [i \in 1..(IF BoundNames = <<>> THEN 0 ELSE 1) |->
                  Req(registered[BoundNames[i]], "Shutdown", Addr(a), NoDatum)]]
ShutdownArm(a, m) ==
    [Quiet(a) EXCEPT
       !.out = [i \in 1..Len(BoundNames) |->
                  Req(registered[BoundNames[i]], "Shutdown", Addr(a), NoDatum)]]

\* A handler whose match falls through to the WhereIs arm.
MasterControlProgramImplFallsThrough(a, m) ==
    CASE m.mt = "Exited" -> ExitedArm(a, m)
      [] m.mt = "Register" -> RegisterArm(a, m)
      [] m.mt = "Shutdown" -> ShutdownArm(a, m)
      [] OTHER -> WhereIsArm(a, m)
MasterControlProgramImpl(a, m) ==
    CASE m.mt = "Exited" -> ExitedArm(a, m)
      [] m.mt = "Register" -> RegisterArm(a, m)
      [] m.mt = "WhereIs" -> WhereIsArm(a, m)
      [] m.mt = "Shutdown" -> ShutdownArm(a, m)
      [] OTHER -> Quiet(a)

\* implementor.process_message(msg, &internal.address)
process_message(a, m) ==
    CASE implementor[a] = "Echo" -> Echo(a, m)
      [] implementor[a] = "Counter" -> Counter(a, m)
      [] implementor[a] = "Talker" -> Talker(a, m)
      [] implementor[a] = "Issuer" -> Issuer(a, m)
      [] implementor[a] = "MasterControlProgramImpl" -> MasterControlProgramImpl(a, m)

\* ------------------------------------------------------------ spawn_internal
\* Two other orders of set-up: the Link sent ahead of Init, and the Link
\* left to the caller to send after spawn_internal has returned.
InitialMessagesLinkFirst(new, uplink) ==
    (IF uplink = None THEN <<>>
     ELSE <<build("Link", uplink, NoDatum, "spawn_internal", 0, Addr(new))>>)
      \o <<build("Init", None, NoDatum, "spawn_internal", 0, Addr(new))>>
InitialMessagesNoLink(new, uplink) ==
    <<build("Init", None, NoDatum, "spawn_internal", 0, Addr(new))>>
\* What spawn_internal puts on the new channel before it starts the thread
\* and before it returns the address: Init, then Link from the uplink.
InitialMessages(new, uplink) ==
    <<build("Init", None, NoDatum, "spawn_internal", 0, Addr(new))>>
      \o (IF uplink = None THEN <<>>
          ELSE <<build("Link", uplink, NoDatum, "spawn_internal", 0, Addr(new))>>)

\* spawn_internal(implementor, uplink) for the actor `new`.
spawn_internal(new, impl, uplink) ==
    /\ pc[new] = "none"
    /\ mailbox' = [mailbox EXCEPT ![Addr(new)] = InitialMessages(new, uplink)]
    /\ pc' = [pc EXCEPT ![new] = "recv"]
    /\ implementor' = [implementor EXCEPT ![new] = impl]
    /\ spawnedWith' = [spawnedWith EXCEPT ![new] = uplink]
    /\ UNCHANGED <<uplinks, cur, count, registered, lookup, calls, ret, dropped,
                   nsent, log, sdSent, succeeded, pending, state>>

\* ----------------------------------------------------------- the actor's task
\* A loop that looks for a Shutdown in its queue before anything else.
FirstShutdown(q) == CHOOSE i \in 1..Len(q) :
    /\ q[i].mt = "Shutdown"
    /\ \A j \in 1..(i - 1) : q[j].mt # "Shutdown"
recv_shutdown_first(q) ==
    IF \E i \in 1..Len(q) : q[i].mt = "Shutdown"
    THEN [msg |-> q[FirstShutdown(q)],
          rest |-> SubSeq(q, 1, FirstShutdown(q) - 1)
                     \o SubSeq(q, FirstShutdown(q) + 1, Len(q))]
    ELSE [msg |-> Head(q), rest |-> Tail(q)]
\* mailbox.recv() on a queue that is not empty: the message the loop takes
\* and what stays queued.
recv(q) == [msg |-> Head(q), rest |-> Tail(q)]

\* The actor a Register asked for, when the answer to it says it succeeded.
Accepted(msg, out) ==
    IF \E i \in 1..Len(out) : out[i].mt = "RegisterResponse" /\ out[i].datum.k = "Str"
    THEN {msg.datum.a} ELSE {}

\* The threads that hold a send end of an actor's channel: the actor's own
\* task, which keeps internal.address, and the test threads that have not
\* dropped their copies.  SendEndsNoOwn leaves the task's own copy out.
SendEndsNoOwn(a) == {c \in Clients : pc[c] # "released"}
SendEnds(a) == {a} \cup {c \in Clients : pc[c] # "released"}

\* A loop that links the sender of a Link before it calls the handler (and
\* again after it).
message_loop_links_first(a) ==
    /\ pc[a] = "recv"
    /\ IF mailbox[Addr(a)] = <<>>
       THEN /\ SendEnds(a) = {}
            /\ pc' = [pc EXCEPT ![a] = "dead"]
            /\ uplinks' = [uplinks EXCEPT ![a] = <<>>]
            /\ UNCHANGED <<mailbox, cur, log, succeeded, count, registered, lookup,
                           sdSent, implementor, spawnedWith, pending, state>>
       ELSE LET rcvd_msg == recv(mailbox[Addr(a)])
                msg == rcvd_msg.msg
                e == process_message(a, msg)
                taken == [mailbox EXCEPT ![Addr(a)] = rcvd_msg.rest]
                new == {e.spawned[i].new : i \in 1..Len(e.spawned)}
                req(x) == e.spawned[CHOOSE i \in 1..Len(e.spawned) : e.spawned[i].new = x]
                started == [b \in Boxes |->
                              IF b.k = 0 /\ b.o \in new
                              THEN InitialMessages(b.o, req(b.o).uplink)
                              ELSE taken[b]]
            IN /\ \A x \in new : pc[x] = "none"
               /\ log' = IF a \in Workers THEN [log EXCEPT ![a] = Append(@, msg)]
                         ELSE log
               /\ succeeded' = succeeded \cup Accepted(msg, e.out)
               /\ count' = [count EXCEPT ![a] = e.cnt]
               /\ registered' = e.reg
               /\ lookup' = e.lk
               /\ sdSent' = sdSent \cup ShutdownTargets(e.out)
               /\ implementor' = [x \in Actors |->
                                    IF x \in new THEN req(x).impl ELSE implementor[x]]
               /\ spawnedWith' = [x \in Actors |->
                                    IF x \in new THEN req(x).uplink ELSE spawnedWith[x]]
               /\ IF e.panic
                  THEN /\ pc' = [t \in Threads |->
                                   IF t = a THEN "dead"
                                   ELSE IF t \in new THEN "recv" ELSE pc[t]]
                       /\ mailbox' = [started EXCEPT ![Addr(a)] = <<>>]
                       /\ cur' = [cur EXCEPT ![a] = NoMsg]
                       /\ uplinks' = [uplinks EXCEPT ![a] = <<>>]
                  ELSE /\ pc' = [t \in Threads |->
                                   IF t = a THEN "post"
                                   ELSE IF t \in new THEN "recv" ELSE pc[t]]
                       /\ mailbox' = SendAllTo(started, e.out, a, 0,
                                               {Addr(x) : x \in new})
                       /\ cur' = [cur EXCEPT ![a] = [mt |-> msg.mt,
                                                     sender |-> msg.sender]]
                       /\ uplinks' = IF msg.mt = "Link"
                                     THEN [uplinks EXCEPT ![a] = Append(@, msg.sender)]
                                     ELSE uplinks
    /\ UNCHANGED <<calls, ret, dropped, nsent, pending, state>>
\* One turn of the loop up to the post-action: receive a message, remember
\* its type and sender, hand it to the implementor.  On an empty queue
\* recv() waits, and fails, which makes the loop panic, when no send end is
\* left.
\* The spawn_link calls of the handler come first: each new actor gets
\* its channel with Init and Link on it and its thread, as in spawn_internal,
\* and the handler's sends find it there.
message_loop(a) ==
    /\ pc[a] = "recv"
    /\ IF mailbox[Addr(a)] = <<>>
       THEN /\ SendEnds(a) = {}
            /\ pc' = [pc EXCEPT ![a] = "dead"]
            /\ uplinks' = [uplinks EXCEPT ![a] = <<>>]
            /\ UNCHANGED <<mailbox, cur, log, succeeded, count, registered, lookup,
                           sdSent, implementor, spawnedWith, pending, state>>
       ELSE LET rcvd_msg == recv(mailbox[Addr(a)])
                msg == rcvd_msg.msg
                e == process_message(a, msg)
                taken == [mailbox EXCEPT ![Addr(a)] = rcvd_msg.rest]
                new == {e.spawned[i].new : i \in 1..Len(e.spawned)}
                req(x) == e.spawned[CHOOSE i \in 1..Len(e.spawned) : e.spawned[i].new = x]
                started == [b \in Boxes |->
                              IF b.k = 0 /\ b.o \in new
                              THEN InitialMessages(b.o, req(b.o).uplink)
                              ELSE taken[b]]
            IN /\ \A x \in new : pc[x] = "none"
               /\ log' = IF a \in Workers THEN [log EXCEPT ![a] = Append(@, msg)]
                         ELSE log
               /\ succeeded' = succeeded \cup Accepted(msg, e.out)
               /\ count' = [count EXCEPT ![a] = e.cnt]
               /\ registered' = e.reg
               /\ lookup' = e.lk
               /\ sdSent' = sdSent \cup ShutdownTargets(e.out)
               /\ implementor' = [x \in Actors |->
                                    IF x \in new THEN req(x).impl ELSE implementor[x]]
               /\ spawnedWith' = [x \in Actors |->
                                    IF x \in new THEN req(x).uplink ELSE spawnedWith[x]]
               /\ IF e.panic
                  THEN /\ pc' = [t \in Threads |->
                                   IF t = a THEN "dead"
                                   ELSE IF t \in new THEN "recv" ELSE pc[t]]
                       /\ mailbox' = [started EXCEPT ![Addr(a)] = <<>>]
                       /\ cur' = [cur EXCEPT ![a] = NoMsg]
                       /\ uplinks' = [uplinks EXCEPT ![a] = <<>>]
                  ELSE /\ pc' = [t \in Threads |->
                                   IF t = a THEN "post"
                                   ELSE IF t \in new THEN "recv" ELSE pc[t]]
                       /\ mailbox' = SendAllTo(started, e.out, a, 0,
                                               {Addr(x) : x \in new})
                       /\ cur' = [cur EXCEPT ![a] = [mt |-> msg.mt,
                                                     sender |-> msg.sender]]
                       /\ UNCHANGED uplinks
    /\ UNCHANGED <<calls, ret, dropped, nsent, pending, state>>

\* Other notifications: one Exited per distinct uplink address, and Exited
\* with the sender of the Shutdown in place of the actor's own address.
ExitedReqsOncePerAddress(a) ==
    LET first == SelectSeq([i \in 1..Len(uplinks[a]) |-> i],
                           LAMBDA i : \A j \in 1..(i - 1) : uplinks[a][j] # uplinks[a][i])
    IN [i \in 1..Len(first) |-> Req(uplinks[a][first[i]], "Exited", Addr(a), NoDatum)]
ExitedReqsFromSender(a) ==
    [i \in 1..Len(uplinks[a]) |-> Req(uplinks[a][i], "Exited", cur[a].sender, NoDatum)]
\* The Exited messages of the Shutdown post-action, one per uplink entry.
ExitedReqs(a) ==
    [i \in 1..Len(uplinks[a]) |-> Req(uplinks[a][i], "Exited", Addr(a), NoDatum)]

\* A post-action whose Shutdown arm notifies the uplinks and loops on.
post_action_no_break(a) ==
    /\ pc[a] = "post"
    /\ CASE cur[a].mt = "Link" ->
              /\ uplinks' = [uplinks EXCEPT ![a] = Append(@, cur[a].sender)]
              /\ UNCHANGED mailbox
         [] cur[a].mt = "Shutdown" ->
              /\ mailbox' = SendAll(mailbox, ExitedReqs(a), a, 0)
              /\ UNCHANGED uplinks
         [] OTHER -> UNCHANGED <<mailbox, uplinks>>
    /\ pc' = [pc EXCEPT ![a] = "recv"]
    /\ cur' = [cur EXCEPT ![a] = NoMsg]
    /\ UNCHANGED <<implementor, count, registered, lookup, calls, ret, dropped, nsent,
                   log, sdSent, succeeded, spawnedWith, pending, state>>
\* A post-action that takes the sender of every message but Shutdown for an
\* uplink.
post_action_links_all(a) ==
    /\ pc[a] = "post"
    /\ CASE cur[a].mt = "Shutdown" ->
              /\ mailbox' = SendAll(mailbox, ExitedReqs(a), a, 0)
              /\ pc' = [pc EXCEPT ![a] = "exiting"]
              /\ UNCHANGED uplinks
         [] OTHER ->
              /\ uplinks' = [uplinks EXCEPT ![a] = Append(@, cur[a].sender)]
              /\ pc' = [pc EXCEPT ![a] = "recv"]
              /\ UNCHANGED mailbox
    /\ cur' = [cur EXCEPT ![a] = NoMsg]
    /\ UNCHANGED <<implementor, count, registered, lookup, calls, ret, dropped, nsent,
                   log, sdSent, succeeded, spawnedWith, pending, state>>
\* A post-action whose Link arm keeps uplinks free of duplicates.
post_action_dedup(a) ==
    /\ pc[a] = "post"
    /\ CASE cur[a].mt = "Link" ->
              /\ uplinks' = [uplinks EXCEPT ![a] =
                                IF cur[a].sender \in {@[i] : i \in 1..Len(@)} THEN @
                                ELSE Append(@, cur[a].sender)]
              /\ pc' = [pc EXCEPT ![a] = "recv"]
              /\ UNCHANGED mailbox
         [] cur[a].mt = "Shutdown" ->
              /\ mailbox' = SendAll(mailbox, ExitedReqs(a), a, 0)
              /\ pc' = [pc EXCEPT ![a] = "exiting"]
              /\ UNCHANGED uplinks
         [] OTHER ->
              /\ pc' = [pc EXCEPT ![a] = "recv"]
              /\ UNCHANGED <<mailbox, uplinks>>
    /\ cur' = [cur EXCEPT ![a] = NoMsg]
    /\ UNCHANGED <<implementor, count, registered, lookup, calls, ret, dropped, nsent,
                   log, sdSent, succeeded, spawnedWith, pending, state>>
\* The "extra standard actions" after process_message has returned.
post_action(a) ==
    /\ pc[a] = "post"
    /\ CASE cur[a].mt = "Link" ->
              /\ uplinks' = [uplinks EXCEPT ![a] = Append(@, cur[a].sender)]
              /\ pc' = [pc EXCEPT ![a] = "recv"]
              /\ UNCHANGED mailbox
         [] cur[a].mt = "Shutdown" ->
              /\ mailbox' = SendAll(mailbox, ExitedReqs(a), a, 0)
              /\ pc' = [pc EXCEPT ![a] = "exiting"]
              /\ UNCHANGED uplinks
         [] OTHER ->
              /\ pc' = [pc EXCEPT ![a] = "recv"]
              /\ UNCHANGED <<mailbox, uplinks>>
    /\ cur' = [cur EXCEPT ![a] = NoMsg]
    /\ UNCHANGED <<implementor, count, registered, lookup, calls, ret, dropped, nsent,
                   log, sdSent, succeeded, spawnedWith, pending, state>>

\* An exit that tells the senders of the Links still queued that the actor
\* is gone.
thread_exit_notifies(a) ==
    /\ pc[a] = "exiting"
    /\ pc' = [pc EXCEPT ![a] = "dead"]
    /\ mailbox' = [SendAll(mailbox,
                           [i \in 1..Len(SelectSeq(mailbox[Addr(a)], LAMBDA m : m.mt = "Link")) |->
                              Req(SelectSeq(mailbox[Addr(a)], LAMBDA m : m.mt = "Link")[i].sender,
                                  "Exited", Addr(a), NoDatum)],
                           a, 0)
                     EXCEPT ![Addr(a)] = <<>>]
    /\ uplinks' = [uplinks EXCEPT ![a] = <<>>]
    /\ pending' = [pending EXCEPT ![a] = <<>>]
    /\ UNCHANGED <<cur, implementor, count, registered, lookup, calls, ret, dropped,
                   nsent, log, sdSent, succeeded, spawnedWith, state>>
\* After the break the closure returns: internal (the receiver, the uplinks)
\* and the implementor are dropped, and what was still queued is lost.
thread_exit(a) ==
    /\ pc[a] = "exiting"
    /\ pc' = [pc EXCEPT ![a] = "dead"]
    /\ mailbox' = [mailbox EXCEPT ![Addr(a)] = <<>>]
    /\ uplinks' = [uplinks EXCEPT ![a] = <<>>]
    /\ pending' = [pending EXCEPT ![a] = <<>>]
    /\ UNCHANGED <<cur, implementor, count, registered, lookup, calls, ret, dropped,
                   nsent, log, sdSent, succeeded, spawnedWith, state>>

\* ----------------------------------- the declarative (matcher/action) form
\* The tags the rules of the built actor match on.
INC == ":inc"
ACTIVATE == ":activate"
BOOM == ":boom"

\* The rules of the actor the model builds, in declared order: the gated
\* counter (count the ":inc" once active; ":activate" sets active), a second
\* matcher for the same ":inc" declared later, and a matcher whose second
\* action fails.
Matchers == <<"counting", "activate", "counting_too", "crashing">>
Matches(k, m, st) ==
    CASE k = "counting" -> m.mt = INC /\ st.active
      [] k = "activate" -> m.mt = ACTIVATE
      [] k = "counting_too" -> m.mt = INC /\ st.active
      [] k = "crashing" -> m.mt = BOOM
Actions(k) ==
    CASE k = "counting" -> <<"increment">>
      [] k = "activate" -> <<"set_active">>
      [] k = "counting_too" -> <<"add_ten">>
      [] k = "crashing" -> <<"increment", "fail", "increment">>

\* What an action returns: Ok, or Err(reason), with the state it leaves.
Ok(st) == [ok |-> TRUE, st |-> st, reason |-> ""]
Err(st, reason) == [ok |-> FALSE, st |-> st, reason |-> reason]
Run(act, m, st) ==
    CASE act = "increment" -> Ok([st EXCEPT !.count = @ + 1])
      [] act = "set_active" -> Ok([st EXCEPT !.active = TRUE])
      [] act = "add_ten" -> Ok([st EXCEPT !.count = @ + 10])
      [] act = "fail" -> Err(st, "boom")
\* The actions of one matcher in declared order, up to the first Err.
RECURSIVE RunAll(_, _, _)
RunAll(acts, m, st) ==
    IF acts = <<>> THEN Ok(st)
    ELSE LET r == Run(Head(acts), m, st)
         IN IF r.ok THEN RunAll(Tail(acts), m, r.st) ELSE r

\* The least element of a set of positions, 0 for none; the greatest.
Least(S) == IF S = {} THEN 0 ELSE CHOOSE i \in S : \A j \in S : i <= j
Greatest(S) == IF S = {} THEN 0 ELSE CHOOSE i \in S : \A j \in S : i >= j
Without(q, i) == SubSeq(q, 1, i - 1) \o SubSeq(q, i + 1, Len(q))

\* A dispatch that runs the matcher declared last among those that match.
LastMatcher(m, st) ==
    Greatest({k \in 1..Len(Matchers) : Matches(Matchers[k], m, st)})
\* The first matcher, in declared order, that matches the message.
FirstMatcher(m, st) ==
    Least({k \in 1..Len(Matchers) : Matches(Matchers[k], m, st)})
\* A walk of the pending queue from the back.
LatestMatch(q, st) ==
    Greatest({i \in 1..Len(q) : FirstMatcher(q[i], st) > 0})
\* The walk of the pending queue from the front: the earliest message some
\* matcher matches, and the earliest system-handled one.
EarliestMatch(q, st) ==
    Least({i \in 1..Len(q) : FirstMatcher(q[i], st) > 0})
EarliestSystem(q) ==
    Least({i \in 1..Len(q) : q[i].mt \in {"Link", "Shutdown"}})

\* A crash that is reported as a normal exit.
CrashReqsVoid(a, reason) ==
    [i \in 1..Len(uplinks[a]) |-> Req(uplinks[a][i], "Exited", Addr(a), NoDatum)]
\* The Exited messages of a failed action, one per uplink entry, with the
\* reason as datum.
CrashReqs(a, reason) ==
    [i \in 1..Len(uplinks[a]) |-> Req(uplinks[a][i], "Exited", Addr(a), Str(reason))]

\* One cycle of the dispatch algorithm: the earliest pending message a
\* matcher matches is given to that matcher's actions and, when they
\* succeed, removed and left to the system post-action, and when one fails
\* the uplinks are told and the actor ends; without a match the earliest
\* pending Link or Shutdown goes to the post-action directly; without
\* either the actor blocks on its mailbox and appends what it receives.
dispatch(a) ==
    /\ pc[a] = "recv"
    /\ LET i == EarliestMatch(pending[a], state[a])
           j == EarliestSystem(pending[a])
       IN IF i > 0
          THEN LET msg == pending[a][i]
                   r == RunAll(Actions(Matchers[FirstMatcher(msg, state[a])]),
                               msg, state[a])
               IN /\ log' = [log EXCEPT ![a] = Append(@, msg)]
                  /\ state' = [state EXCEPT ![a] = r.st]
                  /\ IF r.ok
                     THEN /\ pending' = [pending EXCEPT ![a] = Without(@, i)]
                          /\ pc' = [pc EXCEPT ![a] = "post"]
                          /\ cur' = [cur EXCEPT ![a] = [mt |-> msg.mt,
                                                        sender |-> msg.sender]]
                          /\ UNCHANGED mailbox
                     ELSE /\ mailbox' = SendAll(mailbox, CrashReqs(a, r.reason), a, 0)
                          /\ pc' = [pc EXCEPT ![a] = "exiting"]
                          /\ UNCHANGED <<pending, cur>>
          ELSE IF j > 0
          THEN /\ pending' = [pending EXCEPT ![a] = Without(@, j)]
               /\ pc' = [pc EXCEPT ![a] = "post"]
               /\ cur' = [cur EXCEPT ![a] = [mt |-> pending[a][j].mt,
                                             sender |-> pending[a][j].sender]]
               /\ UNCHANGED <<mailbox, log, state>>
          ELSE /\ mailbox[Addr(a)] # <<>>
               /\ pending' = [pending EXCEPT ![a] = Append(@, Head(mailbox[Addr(a)]))]
               /\ mailbox' = [mailbox EXCEPT ![Addr(a)] = Tail(@)]
               /\ UNCHANGED <<pc, cur, log, state>>
    /\ UNCHANGED <<uplinks, implementor, count, registered, lookup, calls, ret,
                   dropped, nsent, sdSent, succeeded, spawnedWith>>

\* ------------------------------------------------ test threads, the user API
\* spawn(implementor) and spawn_link(implementor, &fake_actor) of a test.
spawn(c, new, impl) == pc[c] = "idle" /\ spawn_internal(new, impl, None)
spawn_link(c, new, impl, uplink) == pc[c] = "idle" /\ spawn_internal(new, impl, uplink)

\* A test thread sends one message through a worker's address: the builder
\* gets with_sender(&fake_actor) or no sender at all.
Send(c, a, mt, sender, datum) ==
    /\ pc[c] = "idle"
    /\ pc[a] # "none"
    /\ nsent' = [nsent EXCEPT ![c] = @ + 1]
    /\ mailbox' = send_to(mailbox, Addr(a),
                          build(mt, sender, datum, c, nsent[c] + 1, Addr(a)))
    /\ sdSent' = IF mt = "Shutdown" THEN sdSent \cup {a} ELSE sdSent
    /\ UNCHANGED <<pc, uplinks, cur, implementor, count, registered, lookup,
                   calls, ret, dropped, log, succeeded, spawnedWith, pending, state>>

UserSend(c, a, mt, sender, datum) ==
    Sum(nsent, Clients) < MaxSends /\ Send(c, a, mt, sender, datum)

\* Message::custom(tag)...send_to(&actor), for the tags of the built actor.
tagged(c, a, mt) ==
    Sum(nsent, Clients) < MaxTagged /\ Send(c, a, mt, None, NoDatum)

\* Message::link()...send_to(&worker)
link(c, a, sender) == UserSend(c, a, "Link", sender, NoDatum)
\* Message::shutdown()...send_to(&worker)
shutdown(c, a, sender) == UserSend(c, a, "Shutdown", sender, NoDatum)
\* Message::custom(tag).with_i64(i)...send_to(&worker); i is the serial of
\* the send, as in the FIFO scenario's 1..1000.
custom(c, a, sender) == UserSend(c, a, "Custom", sender, I64(nsent[c] + 1))

\* The test thread drops every copy of the actor's address it holds; it
\* keeps the channel of its fake actor.
drop_address(c, a) ==
    /\ pc[c] = "idle"
    /\ pc[a] # "none"
    /\ pc' = [pc EXCEPT ![c] = "released"]
    /\ UNCHANGED <<mailbox, uplinks, cur, implementor, count, registered, lookup,
                   calls, ret, dropped, nsent, log, sdSent, succeeded, spawnedWith, pending, state>>

\* ------------------------------------- MasterControlProgram, the wrapper
\* A registry call of a test thread: which one, its arguments, and, once it
\* has returned (done), what it returned: ok for register's bool, found
\* and act for where_is's Option<ActorAddress>.
Call(op, name, actor, done, ok, found, act) ==
    [op |-> op, name |-> name, actor |-> actor, done |-> done, ok |-> ok,
     found |-> found, act |-> act]
NoCall == Call("none", "", None, FALSE, FALSE, FALSE, None)

\* The first half of a call: a new private channel, its address temp_actor,
\* and the request sent to the registry actor.
Request(c, op, name, actor, reqs) ==
    /\ pc[c] = "idle"
    /\ ~dropped
    /\ Sum(calls, Clients) < MaxCalls
    /\ calls' = [calls EXCEPT ![c] = @ + 1]
    /\ pc' = [pc EXCEPT ![c] = op]
    /\ ret' = [ret EXCEPT ![c] = Call(op, name, actor, FALSE, FALSE, FALSE, None)]
    /\ mailbox' = SendAll(mailbox, reqs, c, 0)
    /\ sdSent' = sdSent \cup ShutdownTargets(reqs)

\* The second half: rx.recv().unwrap() gets the reply, and the private
\* channel is dropped with the call's locals.
Reply(c) == Head(mailbox[Temp(c, calls[c])])
Return(c, op, ok, found, act) ==
    /\ pc[c] = op
    /\ mailbox[Temp(c, calls[c])] # <<>>
    /\ pc' = [pc EXCEPT ![c] = "idle"]
    /\ ret' = [ret EXCEPT ![c] = [@ EXCEPT !.done = TRUE, !.ok = ok,
                                           !.found = found, !.act = act]]
    /\ mailbox' = [mailbox EXCEPT ![Temp(c, calls[c])] = <<>>]
    /\ UNCHANGED <<calls, sdSent>>

\* MasterControlProgram::register(name, actor)
register(c, name, actor) ==
    /\ Request(c, "register", name, actor,
               <<Req(Addr(MCP), "Register", Temp(c, calls[c] + 1),
                     RegisterMap(name, actor))>>)
    /\ UNCHANGED <<uplinks, cur, implementor, count, registered, lookup, dropped,
                   nsent, log, succeeded, spawnedWith, pending, state>>
\* A register that takes any RegisterResponse for a success.
register_returns_any(c) ==
    /\ Return(c, "register", Reply(c).mt = "RegisterResponse", FALSE, None)
    /\ UNCHANGED <<uplinks, cur, implementor, count, registered, lookup, dropped,
                   nsent, log, succeeded, spawnedWith, pending, state>>
register_returns(c) ==
    /\ Return(c, "register",
              Reply(c).mt = "RegisterResponse" /\ Reply(c).datum.k = "Str",
              FALSE, None)
    /\ UNCHANGED <<uplinks, cur, implementor, count, registered, lookup, dropped,
                   nsent, log, succeeded, spawnedWith, pending, state>>

\* MasterControlProgram::where_is(name)
where_is(c, name) ==
    /\ Request(c, "where_is", name, None,
               <<Req(Addr(MCP), "WhereIs", Temp(c, calls[c] + 1), Str(name))>>)
    /\ UNCHANGED <<uplinks, cur, implementor, count, registered, lookup, dropped,
                   nsent, log, succeeded, spawnedWith, pending, state>>
where_is_returns(c) ==
    /\ Return(c, "where_is", FALSE,
              Reply(c).mt = "WhereIsResponse" /\ Reply(c).datum.k = "Act",
              IF Reply(c).mt = "WhereIsResponse" /\ Reply(c).datum.k = "Act"
              THEN Reply(c).datum.a ELSE None)
    /\ UNCHANGED <<uplinks, cur, implementor, count, registered, lookup, dropped,
                   nsent, log, succeeded, spawnedWith, pending, state>>

\* Drop for MasterControlProgram: tear_down() sends Link from a private
\* address, then Shutdown, and waits for the Exited.
tear_down(c) ==
    /\ Request(c, "tear_down", "", None,
               <<Req(Addr(MCP), "Link", Temp(c, calls[c] + 1), NoDatum),
                 Req(Addr(MCP), "Shutdown", None, NoDatum)>>)
    /\ dropped' = TRUE
    /\ UNCHANGED <<uplinks, cur, implementor, count, registered, lookup,
                   nsent, log, succeeded, spawnedWith, pending, state>>
tear_down_returns(c) ==
    /\ Return(c, "tear_down", Reply(c).mt = "Exited", FALSE, None)
    /\ UNCHANGED <<uplinks, cur, implementor, count, registered, lookup, dropped,
                   nsent, log, succeeded, spawnedWith, pending, state>>

\* -------------------------------------------------- the runtime on its own
EmptyMap == [x \in {} |-> x]

Init ==
    /\ pc = [t \in Threads |-> IF t \in Clients THEN "idle" ELSE "none"]
    /\ mailbox = [b \in Boxes |-> <<>>]
    /\ uplinks = [a \in Actors |-> <<>>]
    /\ cur = [a \in Actors |-> NoMsg]
    /\ implementor = [a \in Actors |-> "none"]
    /\ count = [a \in Actors |-> 0]
    /\ registered = EmptyMap
    /\ lookup = EmptyMap
    /\ calls = [c \in Clients |-> 0]
    /\ ret = [c \in Clients |-> NoCall]
    /\ dropped = FALSE
    /\ nsent = [c \in Clients |-> 0]
    /\ log = [a \in Workers |-> <<>>]
    /\ sdSent = {}
    /\ succeeded = {}
    /\ spawnedWith = [a \in Actors |-> None]
    /\ pending = [a \in Actors |-> <<>>]
    /\ state = [a \in Actors |-> InitialState]

\* The worker the runtime tests spawn, and who spawns it.
Worker == "w1"
Spawner == "c1"
Senders(c) == {Addr(c), None}

Next ==
    \/ \E impl \in {"Echo", "Counter"} : spawn(Spawner, Worker, impl)
    \/ \E impl \in {"Echo", "Counter"} : spawn_link(Spawner, Worker, impl, Addr(Spawner))
    \/ \E c \in Clients : \E s \in Senders(c) : link(c, Worker, s)
    \/ \E c \in Clients : \E s \in Senders(c) : shutdown(c, Worker, s)
    \/ \E c \in Clients : \E s \in Senders(c) : custom(c, Worker, s)
    \/ message_loop(Worker)
    \/ post_action(Worker)
    \/ thread_exit(Worker)

Spec == Init /\ [][Next]_vars

\* Test threads that send Custom and Shutdown and may drop the worker's
\* address.
NextRelease ==
    \/ \E impl \in {"Echo", "Counter"} : spawn(Spawner, Worker, impl)
    \/ \E impl \in {"Echo", "Counter"} : spawn_link(Spawner, Worker, impl, Addr(Spawner))
    \/ \E c \in Clients : \E s \in Senders(c) : shutdown(c, Worker, s)
    \/ \E c \in Clients : \E s \in Senders(c) : custom(c, Worker, s)
    \/ \E c \in Clients : drop_address(c, Worker)
    \/ message_loop(Worker)
    \/ post_action(Worker)
    \/ thread_exit(Worker)

SpecRelease == Init /\ [][NextRelease]_vars

\* ------------------------------------------------------- with the registry
\* After MasterControlProgram::new() and the spawn of two workers, once each
\* of the three actors has been given its Init and waits for more.
InitMCP ==
    /\ sdSent = {}
    /\ succeeded = {}
    /\ implementor = [a \in Actors |->
                        IF a = MCP THEN "MasterControlProgramImpl"
                        ELSE IF a = "w1" THEN "Echo" ELSE "Counter"]
    /\ pc = [t \in Threads |-> IF t \in Clients THEN "idle" ELSE "recv"]
    /\ mailbox = [b \in Boxes |-> <<>>]
    /\ uplinks = [a \in Actors |-> <<>>]
    /\ cur = [a \in Actors |-> NoMsg]
    /\ count = [a \in Actors |-> 0]
    /\ registered = EmptyMap
    /\ lookup = EmptyMap
    /\ calls = [c \in Clients |-> 0]
    /\ ret = [c \in Clients |-> NoCall]
    /\ dropped = FALSE
    /\ nsent = [c \in Clients |-> 0]
    /\ log = [a \in Workers |-> InitialMessages(a, None)]
    /\ spawnedWith = [a \in Actors |-> None]
    /\ pending = [a \in Actors |-> <<>>]
    /\ state = [a \in Actors |-> InitialState]

\* The thread that owns the MasterControlProgram and makes its calls, one
\* after the other, and a second thread that holds the workers' addresses.
Owner == "c1"
Bystander == "c2"

NextMCP ==
    \/ \E n \in Names : \E w \in Workers : register(Owner, n, Addr(w))
    \/ register_returns(Owner)
    \/ \E n \in Names : where_is(Owner, n)
    \/ where_is_returns(Owner)
    \/ tear_down(Owner)
    \/ tear_down_returns(Owner)
    \/ \E w \in Workers :
          nsent[Bystander] < MaxShutdowns /\ shutdown(Bystander, w, None)
    \/ \E a \in Actors : message_loop(a)
    \/ \E a \in Actors : post_action(a)
    \/ \E a \in Actors : thread_exit(a)

SpecMCP == InitMCP /\ [][NextMCP]_vars

\* ------------------------------------- with the registry's address at large
\* A thread that registered a channel of its own finds the registry's
\* address as the sender of the Link the registry sent to that channel,
\* and can build any message and send it there.
KnowsRegistry(c) ==
    \E i \in 1..Len(mailbox[Addr(c)]) : mailbox[Addr(c)][i].sender = Addr(MCP)
direct(c, mt, datum) ==
    KnowsRegistry(c) /\ nsent[c] < MaxDirect /\ UserSend(c, MCP, mt, Addr(c), datum)

\* What such a thread sends: Register with a Map that lacks the name or the
\* actor, Register and WhereIs without datum, and Shutdown.
Malformed == {RegisterMap("", Addr("w1")), RegisterMap("x", None)}
Registrants == {Addr("w1"), Addr(Bystander)}

NextDirect ==
    \/ \E n \in Names : \E a \in Registrants : register(Owner, n, a)
    \/ register_returns(Owner)
    \/ \E n \in Names : where_is(Owner, n)
    \/ where_is_returns(Owner)
    \/ tear_down(Owner)
    \/ tear_down_returns(Owner)
    \/ \E d \in Malformed \cup {NoDatum} : direct(Bystander, "Register", d)
    \/ direct(Bystander, "WhereIs", NoDatum)
    \/ direct(Bystander, "Shutdown", NoDatum)
    \/ nsent[Bystander] < MaxDirect /\ shutdown(Bystander, "w1", None)
    \/ \E a \in Actors : message_loop(a)
    \/ \E a \in Actors : post_action(a)
    \/ \E a \in Actors : thread_exit(a)

SpecDirect == InitMCP /\ [][NextDirect]_vars

\* ------------------------------------------------------------- scheduling
\* Every actor's thread keeps running: a loop that can take a message, do
\* its post-action or return does so, and a caller blocked in rx.recv()
\* goes on once the answer is there.
Fairness ==
    /\ \A a \in Actors : WF_vars(message_loop(a))
    /\ \A a \in Actors : WF_vars(post_action(a))
    /\ \A a \in Actors : WF_vars(thread_exit(a))
    /\ WF_vars(register_returns(Owner))
    /\ WF_vars(where_is_returns(Owner))
    /\ WF_vars(tear_down_returns(Owner))

FairDirect == SpecDirect /\ Fairness
FairMCP == SpecMCP /\ Fairness

\* The owner registers each worker under a name of its own, as check_mcp
\* does with "echo", and drops the registry while a second thread may shut
\* a worker down.
NameFor == ("w1" :> "x") @@ ("w2" :> "y")
NextDrop ==
    \/ \E w \in Workers : register(Owner, NameFor[w], Addr(w))
    \/ register_returns(Owner)
    \/ tear_down(Owner)
    \/ tear_down_returns(Owner)
    \/ \E w \in Workers :
          nsent[Bystander] < MaxShutdowns /\ shutdown(Bystander, w, None)
    \/ \E a \in Actors : message_loop(a)
    \/ \E a \in Actors : post_action(a)
    \/ \E a \in Actors : thread_exit(a)

FairDrop == InitMCP /\ [][NextDrop]_vars /\ Fairness

\* Code of the crate (its tests) builds messages of every kind: a thread
\* sends one to a worker, or to the registry once it knows its address,
\* while the owner registers the Echo worker as "x" and that thread's
\* channel as "y".
any_kind(c, a, mt) ==
    nsent[c] < MaxDirect /\ Send(c, a, mt, Addr(c), NoDatum)
NextKinds ==
    \/ register(Owner, "x", Addr("w1"))
    \/ register(Owner, "y", Addr(Bystander))
    \/ register_returns(Owner)
    \/ \E mt \in MessageType : direct(Bystander, mt, NoDatum)
    \/ \E mt \in MessageType : any_kind(Bystander, "w1", mt)
    \/ \E a \in Actors : message_loop(a)
    \/ \E a \in Actors : post_action(a)
    \/ \E a \in Actors : thread_exit(a)

SpecKinds == InitMCP /\ [][NextKinds]_vars

\* Two threads that share the MasterControlProgram and call register at
\* the same time, with any name and any worker.
NextRace ==
    \/ \E c \in Clients : \E n \in Names : \E w \in Workers : register(c, n, Addr(w))
    \/ \E c \in Clients : register_returns(c)
    \/ \E a \in Actors : message_loop(a)
    \/ \E a \in Actors : post_action(a)

SpecRace == InitMCP /\ [][NextRace]_vars

\* test_talker: the test thread spawn-links an Issuer to its fake actor,
\* and the Issuer spawn-links a Talker to itself.  The threads that hold the
\* Issuer's address may send it Custom messages meanwhile.
NextTalker ==
    \/ spawn_link(Spawner, Worker, "Issuer", Addr(Spawner))
    \/ \E c \in Clients : \E s \in Senders(c) : custom(c, Worker, s)
    \/ \E a \in Workers : message_loop(a)
    \/ \E a \in Workers : post_action(a)
    \/ \E a \in Workers : thread_exit(a)

FairTalker == Init /\ [][NextTalker]_vars /\ Fairness

\* The gated counter and the crash scenario: a test thread spawn-links the
\* built actor to its fake actor and sends it ":inc", ":activate", ":boom"
\* and Shutdown in any order, and a second thread may link itself.
NextBuilder ==
    \/ spawn_link(Spawner, Worker, "ActorBuilder", Addr(Spawner))
    \/ \E mt \in {INC, ACTIVATE, BOOM, "Shutdown"} : tagged(Spawner, Worker, mt)
    \/ link("c2", Worker, Addr("c2"))
    \/ dispatch(Worker)
    \/ post_action(Worker)
    \/ thread_exit(Worker)

SpecBuilder == Init /\ [][NextBuilder]_vars

\* ================================================================ properties
Terminated(a) == pc[a] \in {"exiting", "dead"}
Range(q) == {q[i] : i \in 1..Len(q)}
Count(q, P(_)) == Len(SelectSeq(q, P))
IsPrefix(p, q) == Len(p) <= Len(q) /\ SubSeq(q, 1, Len(p)) = p
\* A message without its history tag.
Plain(m) == [mt |-> m.mt, sender |-> m.sender, datum |-> m.datum]
Plains(q) == [i \in 1..Len(q) |-> Plain(q[i])]
\* Sent through the address spawn_internal returned, not by spawn_internal.
ViaAddress(m) == m.src # "spawn_internal"
\* Everything an actor has been given or still has queued, in order.
Hist(a) == log[a] \o mailbox[Addr(a)]

\* C1: the first message process_message is invoked with is Init, for every
\* actor and whatever the test threads sent in the meantime.
C1_InitFirst ==
    \A a \in Workers : log[a] # <<>> => log[a][1].mt = "Init"
C1_Witness ==
    \E a \in Workers :
        /\ Len(log[a]) >= 2
        /\ log[a][1].mt = "Init"
        /\ log[a][2].src \in Clients

\* C2: after spawn_link(h, u) the Link from u has been processed, and u is
\* in uplinks, before any message sent through the returned address is
\* processed; a Shutdown sent through it finds u in uplinks.
C2_SpawnLinkOrdering ==
    \A a \in Workers : spawnedWith[a] # None =>
        /\ \A i \in 1..Len(log[a]) : ViaAddress(log[a][i]) =>
              \E j \in 1..(i - 1) :
                  /\ log[a][j].mt = "Link"
                  /\ log[a][j].sender = spawnedWith[a]
                  /\ ~ViaAddress(log[a][j])
        /\ (pc[a] = "post" /\ ViaAddress(log[a][Len(log[a])]))
              => spawnedWith[a] \in Range(uplinks[a])
C2_Witness ==
    \E a \in Workers :
        /\ spawnedWith[a] # None
        /\ pc[a] = "post"
        /\ cur[a].mt = "Shutdown"
        /\ log[a][Len(log[a])].src \in Clients
        /\ spawnedWith[a] \in Range(uplinks[a])

\* C3: when an actor has terminated, each test thread's fake actor has
\* received exactly as many Exited messages from it as Link messages with
\* that sender the actor processed, already before the task exits; an
\* actor that has not terminated has sent no Exited.
ExitedFrom(a, q) == Count(q, LAMBDA m : m.mt = "Exited" /\ m.src = a)
LinksFrom(u, q) == Count(q, LAMBDA m : m.mt = "Link" /\ m.sender = u)
C3_OneExitedPerLink ==
    \A a \in Workers :
        /\ Terminated(a) =>
              \A c \in Clients :
                  ExitedFrom(a, mailbox[Addr(c)]) = LinksFrom(Addr(c), log[a])
        /\ ~Terminated(a) =>
              \A b \in Boxes : ExitedFrom(a, mailbox[b]) = 0
C3_Witness ==
    \E a \in Workers : \E c \in Clients :
        /\ pc[a] = "exiting"
        /\ LinksFrom(Addr(c), log[a]) = 2
        /\ ExitedFrom(a, mailbox[Addr(c)]) = 2

\* C4: the post-action of a Shutdown appends to each uplink's channel one
\* Exited with the actor's own address as sender and Void as datum per
\* entry of uplinks, and the loop ends; an actor sent Link{sender=fake} and
\* then Shutdown by one test thread, and nothing else, delivers exactly one
\* Exited(Void) to fake.
ExitedVoid(a) == [mt |-> "Exited", sender |-> Addr(a), datum |-> Void]
Times(n, x) == [i \in 1..n |-> x]
C4_ShutdownStep ==
    \A a \in Workers :
        (pc[a] = "post" /\ cur[a].mt = "Shutdown" /\ pc'[a] # "post") =>
            /\ pc'[a] = "exiting"
            /\ \A c \in Clients :
                  Plains(mailbox'[Addr(c)]) =
                      Plains(mailbox[Addr(c)])
                        \o Times(Count(uplinks[a], LAMBDA u : u = Addr(c)), ExitedVoid(a))
C4_LinkThenShutdown ==
    \A a \in Workers : \A c \in Clients :
        LET user == SelectSeq(log[a], ViaAddress)
        IN (/\ Terminated(a)
            /\ spawnedWith[a] = None
            /\ Len(user) = 2
            /\ user[1].mt = "Link" /\ user[1].sender = Addr(c) /\ user[1].src = c
            /\ user[2].mt = "Shutdown" /\ user[2].src = c)
           => Plains(SelectSeq(mailbox[Addr(c)], LAMBDA m : m.mt = "Exited"))
                  = <<ExitedVoid(a)>>
C5_NothingSkipped ==
    \A a \in Workers : pc'[a] # "dead" => IsPrefix(Hist(a), Hist(a)')
C5_DrainedAtExit ==
    \A a \in Workers : pc[a] = "exiting" =>
        /\ log[a] # <<>>
        /\ log[a][Len(log[a])].mt = "Shutdown"
        /\ \A i \in 1..(Len(log[a]) - 1) : log[a][i].mt # "Shutdown"
        /\ uplinks[a] = [i \in 1..Count(log[a], LAMBDA m : m.mt = "Link") |->
                           SelectSeq(log[a], LAMBDA m : m.mt = "Link")[i].sender]
C5_ShutdownFIFO == [][C5_NothingSkipped]_vars /\ []C5_DrainedAtExit
C5_Witness ==
    \E a \in Workers :
        /\ pc[a] = "exiting"
        /\ Len(log[a]) >= 4
        /\ \E i \in 1..Len(log[a]) : log[a][i].mt = "Link" /\ ViaAddress(log[a][i])
        /\ \E i \in 1..Len(log[a]) : log[a][i].mt = "Custom"

\* C6: a message sent to an actor after a Shutdown was sent to it is never
\* given to process_message (so it adds no uplink), and once the actor has
\* terminated it is given nothing and sends nothing any more, whether the
\* late message was queued or found the channel closed.
SentBy(a, q) == SelectSeq(q, LAMBDA m : m.src = a)
C6_NeverProcessed ==
    \A a \in Workers : \A i \in 1..Len(log[a]) : ~log[a][i].late
C6_SilentOnceTerminated ==
    \A a \in Workers : Terminated(a) =>
        /\ Terminated(a)'
        /\ log'[a] = log[a]
        /\ uplinks'[a] \in {uplinks[a], <<>>}
        /\ \A b \in Boxes \ {Addr(a)} : SentBy(a, mailbox'[b]) = SentBy(a, mailbox[b])
C6_NoOpAfterShutdown == []C6_NeverProcessed /\ [][C6_SilentOnceTerminated]_vars
C6_Witness ==
    \E a \in Workers :
        /\ pc[a] = "exiting"
        /\ \E i \in 1..Len(mailbox[Addr(a)]) : mailbox[Addr(a)][i].late

\* C7: process_message is given one test thread's messages in the order the
\* thread sent them, whatever the other threads send in between, and an
\* Echo actor returns to a fake actor the messages sent with that sender in
\* that order.
Increasing(q) == \A i \in 1..Len(q) : \A j \in (i + 1)..Len(q) : q[i].n < q[j].n
TypeAndDatum(q) == [i \in 1..Len(q) |-> [mt |-> q[i].mt, datum |-> q[i].datum]]
C7_FIFOPerChannel ==
    \A a \in Workers : \A c \in Clients :
        /\ Increasing(SentBy(c, log[a]))
        /\ implementor[a] = "Echo" =>
              TypeAndDatum(SelectSeq(mailbox[Addr(c)],
                                     LAMBDA m : m.src = a /\ m.mt # "Exited"))
                = TypeAndDatum(SelectSeq(log[a], LAMBDA m : m.sender = Addr(c)))
C7_Witness ==
    \E a \in Workers : \E c, d \in Clients :
        /\ c # d
        /\ implementor[a] = "Echo"
        /\ Len(log[a]) = 4
        /\ log[a][2].src = c /\ log[a][3].src = d /\ log[a][4].src = c
        /\ log[a][2].sender = Addr(c) /\ log[a][4].sender = Addr(c)
        /\ log[a][2].mt = "Custom" /\ log[a][4].mt = "Custom"
        /\ Len(mailbox[Addr(c)]) = 2

\* ------------------------------------------------ properties of the registry
Bound == {registered[n] : n \in DOMAIN registered}
\* The registry takes the message at the head of its mailbox in this step.
RegistryProcesses == pc[MCP] = "recv" /\ pc'[MCP] # "recv"
Processed == Head(mailbox[Addr(MCP)])

\* C8: in every state (so after each message the registry has processed),
\* for all names n and addresses a: registered[n] = a exactly if
\* lookup[a.id] = n, also when one address is registered under two names.
C8_RegistryInverses ==
    \A n \in Names : \A a \in {Addr(w) : w \in Workers} :
        (n \in DOMAIN registered /\ registered[n] = a)
            <=> (a \in DOMAIN lookup /\ lookup[a] = n)

\* C9: at a quiescent point (every mailbox and reply channel empty, every
\* thread waiting) the addresses bound in the registry are exactly the
\* addresses a register call succeeded for whose actor has not exited.
Quiescent ==
    /\ pc[MCP] = "recv"
    /\ \A w \in Workers : pc[w] \in {"recv", "dead"}
    /\ \A c \in Clients : pc[c] = "idle"
    /\ \A b \in Boxes : b.o \notin Clients \/ b.k # 0 => mailbox[b] = <<>>
C9_BoundAreLiveRegistrants ==
    Quiescent => Bound = {a \in succeeded : pc[a.o] # "dead"}

\* C10: register(n, a) returns true exactly if the registry found n
\* unbound; a bound name stays bound until the registry processes the
\* Exited of the actor bound to it, and processing that Exited frees every
\* name bound to that actor, so that it can be registered again.
C10_Answer ==
    (RegistryProcesses /\ Processed.mt = "Register") =>
        LET answers == mailbox'[Processed.sender]
        IN /\ answers # <<>>
           /\ (answers[Len(answers)].datum.k = "Str")
                  <=> (Processed.datum.s \notin DOMAIN registered)
C10_Returned ==
    \A c \in Clients : (pc[c] = "register" /\ pc'[c] = "idle") =>
        ret'[c].ok = (Reply(c).datum.k = "Str")
C10_BoundUntilExited ==
    \A n \in DOMAIN registered \ DOMAIN registered' :
        RegistryProcesses /\ Processed.mt = "Exited" /\ Processed.sender = registered[n]
C10_FreedByExited ==
    (RegistryProcesses /\ Processed.mt = "Exited") =>
        \A n \in DOMAIN registered :
            registered[n] = Processed.sender => n \notin DOMAIN registered'
C10_RegisterOncePerName ==
    [][C10_Answer /\ C10_Returned /\ C10_BoundUntilExited /\ C10_FreedByExited]_vars

\* What the registry's step appended to a channel.
Last(q) == q[Len(q)]
AppendedOne(b) == mailbox'[b] # <<>> /\ mailbox[b] = SubSeq(mailbox'[b], 1, Len(mailbox'[b]) - 1)
WellFormed(m) == m.datum.k = "Map" /\ m.datum.s # "" /\ m.datum.a # None
FromRegistry(mt, d) == [mt |-> mt, sender |-> Addr(MCP), datum |-> d]

\* C11: a Register for a name that is bound is answered with
\* RegisterResponse(Void) and nothing else happens: both maps stay as they
\* are, nothing is sent to any other channel (no Link to the actor of the
\* request), and the registry goes on.
C11_Step ==
    (RegistryProcesses /\ Processed.mt = "Register" /\ WellFormed(Processed)
       /\ Processed.datum.s \in DOMAIN registered) =>
        /\ registered' = registered
        /\ lookup' = lookup
        /\ AppendedOne(Processed.sender)
        /\ Plain(Last(mailbox'[Processed.sender])) = FromRegistry("RegisterResponse", Void)
        /\ \A b \in Boxes \ {Processed.sender, Addr(MCP)} : mailbox'[b] = mailbox[b]
        /\ pc'[MCP] = "post"
C11_BoundNameRefused == [][C11_Step]_vars
C11_Witness ==
    /\ pc[MCP] = "post" /\ cur[MCP].mt = "Register"
    /\ pc[Owner] = "register"
    /\ ret[Owner].name \in DOMAIN registered
    /\ registered[ret[Owner].name] # ret[Owner].actor
    /\ mailbox[Temp(Owner, calls[Owner])] # <<>>
    /\ Reply(Owner).datum = Void

\* C12: a well-formed Register for a free name binds name -> actor and
\* actor.id -> name and leaves the other entries alone, sends one Link with
\* the registry as sender to the actor, and answers RegisterResponse with
\* Str(name); the Link is sent before the answer.
C12_Step ==
    (RegistryProcesses /\ Processed.mt = "Register" /\ WellFormed(Processed)
       /\ Processed.datum.s \notin DOMAIN registered) =>
        LET name == Processed.datum.s
            actor == Processed.datum.a
        IN /\ DOMAIN registered' = DOMAIN registered \cup {name}
           /\ registered'[name] = actor
           /\ \A n \in DOMAIN registered : registered'[n] = registered[n]
           /\ DOMAIN lookup' = DOMAIN lookup \cup {actor}
           /\ lookup'[actor] = name
           /\ \A b \in DOMAIN lookup \ {actor} : lookup'[b] = lookup[b]
           /\ AppendedOne(Processed.sender)
           /\ Plain(Last(mailbox'[Processed.sender]))
                = FromRegistry("RegisterResponse", Str(name))
           /\ RxAlive(actor) =>
                 /\ AppendedOne(actor)
                 /\ Plain(Last(mailbox'[actor])) = FromRegistry("Link", Void)
                 /\ Last(mailbox'[actor]).n < Last(mailbox'[Processed.sender]).n
           /\ \A b \in Boxes \ {Processed.sender, actor, Addr(MCP)} :
                 mailbox'[b] = mailbox[b]
C12_FreeNameBound == [][C12_Step]_vars
C12_Witness ==
    /\ pc[MCP] = "post" /\ cur[MCP].mt = "Register"
    /\ pc[Owner] = "register"
    /\ ret[Owner].name \in DOMAIN registered
    /\ registered[ret[Owner].name] = ret[Owner].actor
    /\ lookup[ret[Owner].actor] = ret[Owner].name
    /\ mailbox[Temp(Owner, calls[Owner])] # <<>>
    /\ Reply(Owner).datum = Str(ret[Owner].name)
    /\ mailbox[ret[Owner].actor] # <<>>
    /\ Plain(Last(mailbox[ret[Owner].actor])) = FromRegistry("Link", Void)

\* C13: a Register whose datum is not a well-formed mapping (no Map, or a
\* Map without the name or without the actor) is answered with
\* RegisterResponse(Void), both maps stay as they are, and the registry
\* keeps running.
C13_Step ==
    (RegistryProcesses /\ Processed.mt = "Register" /\ ~WellFormed(Processed)) =>
        /\ registered' = registered
        /\ lookup' = lookup
        /\ AppendedOne(Processed.sender)
        /\ Plain(Last(mailbox'[Processed.sender])) = FromRegistry("RegisterResponse", Void)
        /\ pc'[MCP] = "post"
C13_MalformedRegisterRefused == [][C13_Step]_vars

\* C14: WhereIs with Str(name) is answered with WhereIsResponse carrying
\* Act of the address bound to name, or Void when name is free; any other
\* datum is answered with Void; WhereIs changes neither map.  A binding
\* stays as it is while its actor has not terminated, and where_is returns
\* what the answer carries, so where_is(n) is Some(a) after register(n, a)
\* was true and before a exits.
C14_Answer ==
    (RegistryProcesses /\ Processed.mt = "WhereIs") =>
        /\ registered' = registered
        /\ lookup' = lookup
        /\ AppendedOne(Processed.sender)
        /\ Plain(Last(mailbox'[Processed.sender]))
             = FromRegistry("WhereIsResponse",
                            IF Processed.datum.k = "Str"
                                 /\ Processed.datum.s \in DOMAIN registered
                            THEN Act(registered[Processed.datum.s]) ELSE Void)
        /\ pc'[MCP] = "post"
C14_Returned ==
    \A c \in Clients : (pc[c] = "where_is" /\ pc'[c] = "idle") =>
        /\ ret'[c].found = (Reply(c).datum.k = "Act")
        /\ ret'[c].found => ret'[c].act = Reply(c).datum.a
C14_BindingStays ==
    \A n \in DOMAIN registered :
        (registered[n].o \in Actors => ~Terminated(registered[n].o)) =>
            n \in DOMAIN registered' /\ registered'[n] = registered[n]
C14_WhereIs == [][C14_Answer /\ C14_Returned /\ C14_BindingStays]_vars
C14_Witness ==
    /\ ret[Owner].op = "where_is" /\ ret[Owner].done /\ ret[Owner].found
    /\ ret[Owner].name \in DOMAIN registered
    /\ ret[Owner].act = registered[ret[Owner].name]
    /\ ret[Owner].act = Addr("w1")
    /\ pc["w1"] = "recv"
    /\ \E i \in 1..Len(mailbox[Addr(Bystander)]) :
          Plain(mailbox[Addr(Bystander)][i]) = FromRegistry("WhereIsResponse", Void)

\* C15: an Exited whose sender's identity is in lookup takes that entry out
\* of lookup and the entry of its name out of registered, and nothing else,
\* so that a WhereIs for the name is answered with Void and where_is
\* returns None; an Exited from any other sender changes neither map.
C15_Step ==
    (RegistryProcesses /\ Processed.mt = "Exited") =>
        LET id == Processed.sender
        IN IF id \in DOMAIN lookup
           THEN /\ DOMAIN lookup' = DOMAIN lookup \ {id}
                /\ \A b \in DOMAIN lookup' : lookup'[b] = lookup[b]
                /\ DOMAIN registered' = DOMAIN registered \ {lookup[id]}
                /\ \A n \in DOMAIN registered' : registered'[n] = registered[n]
           ELSE registered' = registered /\ lookup' = lookup
C15_NotFound ==
    (RegistryProcesses /\ Processed.mt = "WhereIs"
       /\ Processed.datum.s \notin DOMAIN registered) =>
        /\ AppendedOne(Processed.sender)
        /\ Last(mailbox'[Processed.sender]).datum = Void
C15_ReturnsNone ==
    \A c \in Clients : (pc[c] = "where_is" /\ pc'[c] = "idle" /\ Reply(c).datum = Void)
        => ~ret'[c].found
C15_ExitedUnbinds == [][C15_Step /\ C15_NotFound /\ C15_ReturnsNone]_vars
C15_Witness ==
    /\ ret[Owner].op = "where_is" /\ ret[Owner].done /\ ~ret[Owner].found
    /\ calls[Owner] = 2
    /\ succeeded = {Addr("w1")}
    /\ pc["w1"] = "dead"
    /\ registered = EmptyMap /\ lookup = EmptyMap

\* C16: when the registry processes Shutdown it sends Shutdown with itself
\* as sender to the address of every binding, and no Exited yet; the
\* post-action that follows sends Exited to each of the registry's uplinks
\* and ends the loop.
ShutdownFromRegistry == FromRegistry("Shutdown", Void)
NamesOf(a) == Cardinality({n \in DOMAIN registered : registered[n] = a})
C16_Broadcast ==
    (RegistryProcesses /\ Processed.mt = "Shutdown") =>
        /\ pc'[MCP] = "post"
        /\ registered' = registered /\ lookup' = lookup
        /\ \A b \in Boxes \ {Addr(MCP)} :
              Plains(mailbox'[b]) =
                  Plains(mailbox[b])
                    \o (IF RxAlive(b) THEN Times(NamesOf(b), ShutdownFromRegistry)
                        ELSE <<>>)
C16_PostAction ==
    (pc[MCP] = "post" /\ cur[MCP].mt = "Shutdown" /\ pc'[MCP] # "post") =>
        /\ pc'[MCP] = "exiting"
        /\ \A b \in Boxes \ {Addr(MCP)} :
              Plains(mailbox'[b]) =
                  Plains(mailbox[b])
                    \o (IF RxAlive(b)
                        THEN Times(Count(uplinks[MCP], LAMBDA u : u = b), ExitedVoid(MCP))
                        ELSE <<>>)
C16_RegistryShutdown == [][C16_Broadcast /\ C16_PostAction]_vars
C16_Witness ==
    /\ pc[MCP] = "exiting"
    /\ \E w \in Workers :
          /\ Addr(w) \in Bound
          /\ \E i \in 1..Len(Hist(w)) : Plain(Hist(w)[i]) = ShutdownFromRegistry
    /\ pc[Owner] = "tear_down"
    /\ mailbox[Temp(Owner, calls[Owner])] # <<>>
    /\ Plain(Reply(Owner)) = ExitedVoid(MCP)

\* C17: dropping the wrapper completes: once tear_down has sent its Link
\* and its Shutdown, the Exited arrives and tear_down returns, whatever was
\* done with the registry before, messages sent to its address included.
C17_TearDownCompletes ==
    (pc[Owner] = "tear_down") ~> (pc[Owner] = "idle" /\ ret[Owner].done)

\* C18: once the wrapper is dropped every worker that is bound in the
\* registry terminates, and after the registry has exited nothing sent to
\* it is queued or changes its maps, and the worker that sent it goes on to
\* its exit.
C18_RegistryGone ==
    pc[MCP] = "dead" =>
        /\ pc'[MCP] = "dead"
        /\ mailbox'[Addr(MCP)] = <<>>
        /\ registered' = registered /\ lookup' = lookup
        /\ \A w \in Workers :
              (pc[w] = "post" /\ cur[w].mt = "Shutdown" /\ pc'[w] # "post")
                  => pc'[w] = "exiting"
C18_DropShutsDownRegistrants ==
    /\ [][C18_RegistryGone]_vars
    /\ \A w \in Workers : (dropped /\ Addr(w) \in Bound) ~> Terminated(w)
C18_Witness ==
    /\ dropped
    /\ pc[MCP] = "dead"
    /\ \E w \in Workers :
          /\ Addr(w) \in Bound
          /\ pc[w] = "exiting"
          /\ Addr(MCP) \in Range(uplinks[w])

\* C19: a worker terminates only in the post-action of a Shutdown it has
\* processed: the receive on an empty queue never fails, so a worker whose
\* address every test thread has dropped keeps waiting.
C19_Step ==
    \A a \in Workers :
        (~Terminated(a) /\ Terminated(a)') => (pc[a] = "post" /\ cur[a].mt = "Shutdown")
C19_ShutdownProcessed ==
    \A a \in Workers : Terminated(a) =>
        \E i \in 1..Len(log[a]) : log[a][i].mt = "Shutdown"
C19_OnlyShutdownTerminates == [][C19_Step]_vars /\ []C19_ShutdownProcessed
C19_Witness ==
    /\ \A c \in Clients : pc[c] = "released"
    /\ pc[Worker] = "recv"
    /\ mailbox[Addr(Worker)] = <<>>
    /\ Len(log[Worker]) >= 3
    /\ \A i \in 1..Len(log[Worker]) : log[Worker][i].mt # "Shutdown"

\* C20: a send to a channel whose receiver is gone (a terminated worker,
\* the null-route sender of a message built without sender) returns: the
\* message is queued nowhere, and the sending thread goes on as after any
\* other send, a test thread with its next statement, a worker with its
\* post-action.
C20_SendToTerminated ==
    \A c \in Clients :
        (nsent'[c] = nsent[c] + 1 /\ ~RxAlive(Addr(Worker))) =>
            /\ mailbox' = mailbox
            /\ pc' = pc
C20_ReplyToNullRoute ==
    (pc[Worker] = "recv" /\ pc'[Worker] # "recv"
       /\ Head(mailbox[Addr(Worker)]).sender = fake_tx) =>
        /\ pc'[Worker] = "post"
        /\ \A b \in Boxes \ {Addr(Worker)} : mailbox'[b] = mailbox[b]
C20_ExitedToNullRoute ==
    (pc[Worker] = "post" /\ cur[Worker].mt = "Shutdown" /\ pc'[Worker] # "post") =>
        /\ pc'[Worker] = "exiting"
        /\ \A b \in Boxes : Len(mailbox'[b]) =
              Len(mailbox[b]) + Count(uplinks[Worker], LAMBDA u : u = b)
C20_NothingQueued ==
    /\ \A a \in Workers : pc[a] = "dead" => mailbox[Addr(a)] = <<>>
    /\ \A c \in Clients : pc[c] = "idle"
    /\ DOMAIN mailbox = Boxes /\ fake_tx \notin Boxes
C20_ClosedMailboxSilent ==
    /\ [][C20_SendToTerminated /\ C20_ReplyToNullRoute /\ C20_ExitedToNullRoute]_vars
    /\ []C20_NothingQueued
C20_Witness ==
    /\ pc[Worker] = "dead"
    /\ implementor[Worker] = "Echo"
    /\ \E i \in 1..Len(log[Worker]) :
          log[Worker][i].mt = "Link" /\ log[Worker][i].sender = fake_tx
    /\ Sum(nsent, Clients) > Len(SelectSeq(log[Worker], ViaAddress))

\* C21: an Issuer spawn-linked to the fake actor u, which spawn-links a
\* Talker to itself in its Init handler, sends it a Shutdown and sends
\* itself a Shutdown on Exited: the Issuer has processed the Link from u
\* before it is given the Talker's Exited, u never holds anything but one
\* Exited(Void) from the Issuer, and in every run it eventually holds it.
ExitedAt(u) == Plains(SelectSeq(mailbox[u], LAMBDA m : m.mt = "Exited"))
C21_LinkFirst ==
    \A i \in 1..Len(log[Worker]) : log[Worker][i].mt = "Exited" =>
        /\ log[Worker][i].sender = Addr(Fresh(Worker))
        /\ \E j \in 1..(i - 1) :
              log[Worker][j].mt = "Link" /\ log[Worker][j].sender = Addr(Spawner)
C21_AtMostOne ==
    \A c \in Clients :
        ExitedAt(Addr(c)) \in {<<>>} \cup (IF c = Spawner THEN {<<ExitedVoid(Worker)>>} ELSE {})
C21_TwoLevelExit ==
    /\ [](C21_LinkFirst /\ C21_AtMostOne)
    /\ (pc[Worker] # "none") ~> (ExitedAt(Addr(Spawner)) = <<ExitedVoid(Worker)>>)
C21_Witness ==
    /\ pc[Worker] = "dead" /\ pc[Fresh(Worker)] = "dead"
    /\ implementor[Worker] = "Issuer" /\ implementor[Fresh(Worker)] = "Talker"
    /\ Len(log[Fresh(Worker)]) = 6
    /\ ExitedAt(Addr(Spawner)) = <<ExitedVoid(Worker)>>
    /\ \E i \in 1..Len(log[Worker]) : \E j \in (i + 1)..Len(log[Worker]) :
          log[Worker][i].mt = "Custom" /\ log[Worker][j].mt = "Exited"

\* C22: in the declarative form, when an action returns Err(reason) the
\* actor sends Exited with Str(reason) to every entry of uplinks and ends,
\* the actions after the failed one do not run, and what is still pending
\* or queued is never given to an action.
ExitedStr(a, reason) == [mt |-> "Exited", sender |-> Addr(a), datum |-> Str(reason)]
C22_Step ==
    (pc[Worker] = "recv" /\ log'[Worker] # log[Worker] /\ Last(log'[Worker]).mt = BOOM) =>
        /\ pc'[Worker] = "exiting"
        /\ state'[Worker].count = state[Worker].count + 1
        /\ \A c \in Clients :
              Plains(mailbox'[Addr(c)]) =
                  Plains(mailbox[Addr(c)])
                    \o Times(Count(uplinks[Worker], LAMBDA u : u = Addr(c)),
                             ExitedStr(Worker, "boom"))
C22_Discarded ==
    Terminated(Worker) =>
        /\ Terminated(Worker)'
        /\ log'[Worker] = log[Worker]
        /\ state'[Worker] = state[Worker]
        /\ \A c \in Clients : mailbox'[Addr(c)] = mailbox[Addr(c)]
C22_Crashed ==
    (log[Worker] # <<>> /\ Last(log[Worker]).mt = BOOM) =>
        /\ Terminated(Worker)
        /\ \A c \in Clients : ExitedVoid(Worker) \notin Range(Plains(mailbox[Addr(c)]))
C22_ActionError == [][C22_Step /\ C22_Discarded]_vars /\ []C22_Crashed
C22_Witness ==
    /\ pc[Worker] = "exiting"
    /\ log[Worker] # <<>> /\ Last(log[Worker]).mt = BOOM
    /\ Len(uplinks[Worker]) = 2
    /\ \A c \in Clients : ExitedAt(Addr(c)) = <<ExitedStr(Worker, "boom")>>
    /\ \E i \in 1..Len(pending[Worker]) : pending[Worker][i].mt = INC
    /\ \E i \in 1..Len(mailbox[Addr(Worker)]) : mailbox[Addr(Worker)][i].mt = ACTIVATE

\* C23: in the declarative form a dispatch cycle gives the earliest pending
\* message that some matcher matches under the current state to the actions
\* of the first such matcher only, and the messages nothing matches stay
\* pending in their order; a pending Link or Shutdown is taken only when
\* nothing pending matches.  So three ":inc" sent before ":activate" and a
\* Shutdown after it are all counted: count is 3 when the actor exits, and
\* the exit datum is Void.
Eligible(m, st) == \E k \in 1..Len(Matchers) : Matches(Matchers[k], m, st)
C23_Step ==
    (pc[Worker] = "recv" /\ (pending'[Worker] # pending[Worker] \/ pc'[Worker] # "recv")) =>
        LET q == pending[Worker]
            st == state[Worker]
        IN IF \E i \in 1..Len(q) : Eligible(q[i], st)
           THEN \E i \in 1..Len(q) :
                   /\ Eligible(q[i], st)
                   /\ \A j \in 1..(i - 1) : ~Eligible(q[j], st)
                   /\ log'[Worker] = Append(log[Worker], q[i])
                   /\ pc'[Worker] = "post" => pending'[Worker] = Without(q, i)
                   /\ q[i].mt = INC =>
                         state'[Worker] = [st EXCEPT !.count = @ + 1]
                   /\ q[i].mt = ACTIVATE =>
                         state'[Worker] = [st EXCEPT !.active = TRUE]
           ELSE /\ log'[Worker] = log[Worker]
                /\ state'[Worker] = st
                /\ \/ /\ pc'[Worker] = "recv"
                      /\ pending'[Worker] = Append(q, Head(mailbox[Addr(Worker)]))
                   \/ /\ pc'[Worker] = "post"
                      /\ \E j \in 1..Len(q) :
                            /\ q[j].mt = cur'[Worker].mt
                            /\ q[j].mt \in {"Link", "Shutdown"}
                            /\ \A h \in 1..(j - 1) : q[h].mt \notin {"Link", "Shutdown"}
                            /\ pending'[Worker] = Without(q, j)
\* The messages of a test thread the actor has got and still holds, by
\* their serial; a Shutdown the system post-action took is not among them.
Got(c) == SentBy(c, log[Worker] \o pending[Worker] \o mailbox[Addr(Worker)])
ThreeThenActivate ==
    /\ nsent[Spawner] = 5
    /\ \A k \in 1..3 : \E i \in 1..Len(Got(Spawner)) :
          Got(Spawner)[i].n = k /\ Got(Spawner)[i].mt = INC
    /\ \E i \in 1..Len(Got(Spawner)) :
          Got(Spawner)[i].n = 4 /\ Got(Spawner)[i].mt = ACTIVATE
    /\ \A i \in 1..Len(Got(Spawner)) : Got(Spawner)[i].mt \in {INC, ACTIVATE}
C23_Gate ==
    (ThreeThenActivate /\ pc[Worker] = "exiting") =>
        /\ state[Worker] = [active |-> TRUE, count |-> 3]
        /\ ExitedAt(Addr(Spawner)) = <<ExitedVoid(Worker)>>
C23_Dispatch == [][C23_Step]_vars /\ []C23_Gate
C23_Witness ==
    /\ ThreeThenActivate
    /\ pc[Worker] = "exiting"
    /\ state[Worker].count = 3
    /\ Plains(pending[Worker]) = <<[mt |-> "Init", sender |-> fake_tx, datum |-> Void]>>

\* C24: uplinks is a list with repetitions: the post-action of a Link
\* appends the sender also when it is in the list already, and an actor
\* that has processed k Links of one sender before its Shutdown holds that
\* sender k times and has sent it exactly k Exited messages when it exits.
C24_LinkStep ==
    \A a \in Workers :
        (pc[a] = "post" /\ cur[a].mt = "Link" /\ pc'[a] # "post") =>
            uplinks'[a] = Append(uplinks[a], cur[a].sender)
C24_Exiting ==
    \A a \in Workers : pc[a] = "exiting" =>
        \A c \in Clients :
            LET k == LinksFrom(Addr(c), log[a])
            IN /\ Count(uplinks[a], LAMBDA u : u = Addr(c)) = k
               /\ ExitedAt(Addr(c)) = Times(k, ExitedVoid(a))
C24_NoDeduplication == [][C24_LinkStep]_vars /\ []C24_Exiting
C24_Witness ==
    \E c \in Clients :
        /\ pc[Worker] = "exiting"
        /\ implementor[Worker] = "Counter"
        /\ spawnedWith[Worker] = Addr(c)
        /\ uplinks[Worker] = <<Addr(c), Addr(c), Addr(c)>>
        /\ ExitedAt(Addr(c)) = <<ExitedVoid(Worker), ExitedVoid(Worker), ExitedVoid(Worker)>>

\* C25: a message of a kind other than Link and Shutdown goes through the
\* loop without a trace in the runtime's own state: the handler's turn
\* leaves uplinks alone and the actor running, the post-action changes
\* nothing and sends nothing, and no Exited leaves the actor (but the echo
\* of an Exited that an Echo actor was sent).
OtherKinds == MessageType \ {"Link", "Shutdown"}
AllExitedFrom(a, mb) == [b \in Boxes |-> ExitedFrom(a, mb[b])]
C25_Handler ==
    \A a \in Actors :
        (pc[a] = "recv" /\ pc'[a] # "recv" /\ Head(mailbox[Addr(a)]).mt \in OtherKinds) =>
            /\ pc'[a] = "post"
            /\ cur'[a].mt = Head(mailbox[Addr(a)]).mt
            /\ uplinks'[a] = uplinks[a]
            /\ (implementor[a] = "Echo" /\ Head(mailbox[Addr(a)]).mt = "Exited")
                 \/ AllExitedFrom(a, mailbox') = AllExitedFrom(a, mailbox)
C25_PostAction ==
    \A a \in Actors :
        (pc[a] = "post" /\ cur[a].mt \in OtherKinds /\ pc'[a] # "post") =>
            /\ pc'[a] = "recv"
            /\ uplinks' = uplinks
            /\ mailbox' = mailbox
C25_OtherKindsNoEffect == [][C25_Handler /\ C25_PostAction]_vars
C25_Witness ==
    /\ pc["w1"] = "recv"
    /\ uplinks["w1"] = <<Addr(MCP)>>
    /\ Last(log["w1"]).mt = "RegisterResponse"
    /\ Last(log["w1"]).src = Bystander
    /\ AllExitedFrom("w1", mailbox) = [b \in Boxes |-> 0]

\* C28: the registry's handler does nothing with a message of a kind other
\* than Register, WhereIs, Exited and Shutdown: both maps stay as they are,
\* no channel gets a message, and the registry goes on to its post-action.
Ignored == {"Init", "Link", "Custom", "RegisterResponse", "WhereIsResponse"}
C28_Step ==
    (RegistryProcesses /\ Processed.mt \in Ignored) =>
        /\ registered' = registered
        /\ lookup' = lookup
        /\ mailbox' = [mailbox EXCEPT ![Addr(MCP)] = Tail(@)]
        /\ pc'[MCP] = "post"
C28_OtherKindsIgnored == [][C28_Step]_vars
C28_Witness ==
    /\ pc[MCP] = "post"
    /\ cur[MCP] = [mt |-> "RegisterResponse", sender |-> Addr(Bystander)]
    /\ DOMAIN registered = Names
    /\ mailbox[Addr(Bystander)] # <<>>
    /\ \A i \in 1..Len(mailbox[Addr(Bystander)]) : mailbox[Addr(Bystander)][i].mt = "Link"

\* C26: the post-action of a message comes after the handler has returned:
\* the handler's turn for a Link leaves uplinks as it was, with the answer
\* of an Echo actor sent already, and the sender is appended in the step
\* after it; and what the handler sends to an uplink for a Shutdown is in
\* the uplink's channel ahead of the actor's Exited.
C26_LinkNotYet ==
    \A a \in Workers :
        (pc[a] = "recv" /\ pc'[a] # "recv" /\ Head(mailbox[Addr(a)]).mt = "Link") =>
            /\ pc'[a] = "post"
            /\ uplinks'[a] = uplinks[a]
            /\ \A c \in Clients :
                  (implementor[a] = "Echo" /\ Head(mailbox[Addr(a)]).sender = Addr(c)) =>
                      /\ AppendedOne(Addr(c))
                      /\ Last(mailbox'[Addr(c)]).mt = "Link"
C26_LinkedAfter ==
    \A a \in Workers : (pc[a] = "post" /\ cur[a].mt = "Link") =>
        Len(uplinks[a]) = Count(log[a], LAMBDA m : m.mt = "Link") - 1
C26_HandlerFirst ==
    \A a \in Workers : \A c \in Clients :
        LET q == mailbox[Addr(c)]
        IN /\ \A i, j \in 1..Len(q) :
                 (q[i].src = a /\ q[i].mt = "Exited" /\ q[j].src = a /\ q[j].mt # "Exited")
                     => j < i
           /\ (pc[a] = "exiting" /\ implementor[a] = "Echo"
                 /\ Last(log[a]).sender = Addr(c) /\ Addr(c) \in Range(uplinks[a])) =>
                  \E i \in 1..Len(q) :
                      /\ Plain(q[i]) = [mt |-> "Shutdown", sender |-> Addr(a), datum |-> Void]
                      /\ i < Len(q)
                      /\ \A j \in (i + 1)..Len(q) : Plain(q[j]) = ExitedVoid(a)
C26_PostActionAfterHandler ==
    [][C26_LinkNotYet]_vars /\ [](C26_LinkedAfter /\ C26_HandlerFirst)
C26_Witness ==
    \E c \in Clients :
        /\ pc[Worker] = "exiting"
        /\ implementor[Worker] = "Echo"
        /\ spawnedWith[Worker] = None
        /\ uplinks[Worker] = <<Addr(c)>>
        /\ TypeAndDatum(mailbox[Addr(c)]) =
              <<[mt |-> "Link", datum |-> Void], [mt |-> "Shutdown", datum |-> Void],
                [mt |-> "Exited", datum |-> Void]>>

\* C27: a Link sent to an actor whose loop has ended changes nothing but,
\* at most, the actor's own queue; it is never given to process_message,
\* and from the end of the loop on no channel gets an Exited from the
\* actor, so the sender of that Link never receives one.
C27_SentToTerminated ==
    \A c \in Clients :
        (nsent'[c] = nsent[c] + 1 /\ Terminated(Worker)) =>
            /\ \A b \in Boxes \ {Addr(Worker)} : mailbox'[b] = mailbox[b]
            /\ pc[Worker] = "dead" => mailbox' = mailbox
            /\ uplinks' = uplinks /\ log' = log /\ pc' = pc
C27_NoExitedLater ==
    \A a \in Workers : Terminated(a) =>
        /\ Terminated(a)'
        /\ AllExitedFrom(a, mailbox') = AllExitedFrom(a, mailbox)
C27_NeverLinked ==
    \A a \in Workers :
        /\ \A i \in 1..Len(log[a]) : ~log[a][i].gone
        /\ \A c \in Clients :
              ExitedFrom(a, mailbox[Addr(c)]) <= LinksFrom(Addr(c), log[a])
C27_LateLinkDropped ==
    [][C27_SentToTerminated /\ C27_NoExitedLater]_vars /\ []C27_NeverLinked
C27_Witness ==
    \E c \in Clients :
        /\ pc[Worker] = "exiting"
        /\ \E i \in 1..Len(mailbox[Addr(Worker)]) :
              /\ mailbox[Addr(Worker)][i].mt = "Link"
              /\ mailbox[Addr(Worker)][i].sender = Addr(c)
              /\ mailbox[Addr(Worker)][i].gone
        /\ LinksFrom(Addr(c), log[Worker]) = 0
        /\ ExitedFrom(Worker, mailbox[Addr(c)]) = 0

\* C29: when two threads call register with the same name, unbound so far,
\* at the same time, with the same or with different addresses, the
\* registry answers one of them with the name and the other with Void
\* whichever request it takes first; one call returns true and the other
\* false, and the name is bound to the address of the call that returned
\* true.
FirstCalls(c, d) ==
    /\ c # d
    /\ calls[c] = 1 /\ calls[d] = 1
    /\ ret[c].op = "register" /\ ret[d].op = "register"
    /\ ret[c].name = ret[d].name
Answered(c) ==
    IF ret[c].done THEN ret[c].ok
    ELSE mailbox[Temp(c, calls[c])] # <<>> /\ Reply(c).datum.k = "Str"
HasAnswer(c) == ret[c].done \/ mailbox[Temp(c, calls[c])] # <<>>
C29_ExactlyOne ==
    \A c, d \in Clients :
        (FirstCalls(c, d) /\ HasAnswer(c) /\ HasAnswer(d)) =>
            /\ Answered(c) # Answered(d)
            /\ ret[c].name \in DOMAIN registered
            /\ registered[ret[c].name] = IF Answered(c) THEN ret[c].actor ELSE ret[d].actor
C29_Returned ==
    \A c \in Clients : (pc[c] = "register" /\ pc'[c] = "idle") =>
        ret'[c].ok = Answered(c)
C29_ConcurrentRegister == []C29_ExactlyOne /\ [][C29_Returned]_vars
C29_Witness ==
    /\ FirstCalls("c1", "c2")
    /\ pc["c1"] = "register" /\ pc["c2"] = "register"
    /\ ret["c1"].actor # ret["c2"].actor
    /\ HasAnswer("c1") /\ HasAnswer("c2")
    /\ Answered("c2") /\ ~Answered("c1")
    /\ registered[ret["c2"].name] = ret["c2"].actor

\* C30: once register(n, a) has returned true for an actor a that runs and
\* has been sent no Shutdown, a Shutdown sent to a later is processed
\* after the registry's Link, and unless the registry is shut down itself
\* the binding of n is eventually removed.
RegisteredLive(n, w) ==
    /\ pc[Owner] = "idle"
    /\ ret[Owner].op = "register" /\ ret[Owner].done /\ ret[Owner].ok
    /\ ret[Owner].name = n /\ ret[Owner].actor = Addr(w)
    /\ w \notin sdSent /\ ~Terminated(w)
LinkAhead(w) ==
    \/ Addr(MCP) \in Range(uplinks[w])
    \/ pc[w] = "post" /\ cur[w].mt = "Link" /\ cur[w].sender = Addr(MCP)
    \/ \E i \in 1..Len(mailbox[Addr(w)]) :
          /\ mailbox[Addr(w)][i].mt = "Link"
          /\ mailbox[Addr(w)][i].sender = Addr(MCP)
          /\ \A j \in 1..i : mailbox[Addr(w)][j].mt # "Shutdown"
C30_LinkBeforeReply ==
    \A n \in Names : \A w \in Workers :
        RegisteredLive(n, w) =>
            /\ n \in DOMAIN registered /\ registered[n] = Addr(w)
            /\ LinkAhead(w)
C30_ShutdownUnbinds ==
    /\ []C30_LinkBeforeReply
    /\ \A n \in Names : \A w \in Workers :
          [](RegisteredLive(n, w) =>
               [](w \in sdSent /\ ~Terminated(w) =>
                    <>(n \notin DOMAIN registered \/ dropped)))

\* C31: every call to register or where_is made on a wrapper that has not
\* been dropped returns: the registry sends exactly one response, of the
\* kind the call waits for, to the call's private channel, whatever the
\* registry received before.
Calling(c) == pc[c] \in {"register", "where_is"}
ResponseTo(op) == IF op = "register" THEN "RegisterResponse" ELSE "WhereIsResponse"
C31_OneResponse ==
    \A c \in Clients :
        Calling(c) =>
            /\ Len(mailbox[Temp(c, calls[c])]) <= 1
            /\ mailbox[Temp(c, calls[c])] # <<>> =>
                  /\ Reply(c).mt = ResponseTo(pc[c])
                  /\ Reply(c).sender = Addr(MCP)
C31_CallsReturn ==
    /\ []C31_OneResponse
    /\ Calling(Owner) ~> (pc[Owner] = "idle" /\ ret[Owner].done)

====
